---- MODULE Spec2Model ----
(***************************************************************************)
(* A model of torch/_prims/utils.py: dtype classification, the elementwise *)
(* type promotion algorithm, dimension canonicalization and the operand    *)
(* compatibility checks.  Every function of the file that is modelled is   *)
(* an operator computed the way the Python code computes it; every action  *)
(* is one call of one function, with its arguments recorded in `call` and  *)
(* its outcome (a value or the exception raised) in `ret`.                 *)
(***************************************************************************)
EXTENDS Integers, Sequences, FiniteSets, TLC

VARIABLES
    default_dtype,  \* the process-wide default float dtype (torch.get_default_dtype())
    pc,             \* "idle": no call in progress; "returned": `call` has returned `ret`
    call,           \* the function called and its arguments
    ret             \* the outcome of the call

vars == <<default_dtype, pc, call, ret>>

(***************************************************************************)
(* Bounds of the explored inputs.                                          *)
(***************************************************************************)
\* longest operand list given to elementwise_dtypes (each operand one of 4 Numbers,
\* 13 dtypes x 2 ranks of tensor, None, or an object of another type)
MaxArgs == 2
\* longest operand list given to check_same_shape / check_same_device
MaxCheckArgs == 3
\* highest rank given to canonicalize_dim; indices range over -(MaxRank+2)..MaxRank+2
MaxRank == 5
\* highest rank of the shapes given to compare_tensor_meta
MaxShapeRank == 3
\* longest operand list drawn from FoldOperands given to elementwise_dtypes
MaxFoldArgs == 3
\* longest dims given to reduction_dims
MaxDims == 2

(***************************************************************************)
(* Values.  A dtype is its name; Python's None is the string "None".       *)
(* An outcome is Ok(value) or Raise(exception name).                       *)
(***************************************************************************)
None == "None"

Ok(v) == [status |-> "ok", val |-> v]

Raise(e) == [status |-> e, val |-> None]

\* isinstance(x, Number): a Python bool, int, float or complex; x.typ is type(x)
Num(t) == [tag |-> "Number", typ |-> t]

\* a TensorLike with the metadata the file reads
TensorLike(dt, sh, st, dev) ==
    [tag |-> "Tensor", dtype |-> dt, shape |-> sh, strides |-> st, device |-> dev]

\* RaiseMsg(e, m): exception e whose message starts with m
RaiseMsg(e, m) == [status |-> e, val |-> m]

\* an optional keyword argument that is given
Some(v) == [tag |-> "Some", val |-> v]

\* a torch.dtype object given as an argument
DT(d) == IF d = None THEN [tag |-> "None"] ELSE [tag |-> "dtype", dtype |-> d]

NoneArg == [tag |-> "None"]

\* an object that is neither a Number nor a TensorLike (nor a dtype), e.g. a str
OtherObj == [tag |-> "Other"]

isinstance_Number(x) == x.tag = "Number"

isinstance_TensorLike(x) == x.tag = "Tensor"

ndim(x) == Len(x.shape)

InTuple(x, t) == \E i \in DOMAIN t : t[i] = x

(***************************************************************************)
(* Dtype classification.                                                   *)
(***************************************************************************)
integer_dtypes == <<"uint8", "int8", "int16", "int32", "int64">>

float_dtypes == <<"float16", "bfloat16", "float32", "float64">>

complex_dtypes == <<"complex32", "complex64", "complex128">>

is_boolean_dtype(dtype) == dtype = "bool"

is_integer_dtype(dtype) == InTuple(dtype, integer_dtypes)

is_float_dtype(dtype) == InTuple(dtype, float_dtypes)

is_complex_dtype(dtype) == InTuple(dtype, complex_dtypes)

Range(t) == {t[i] : i \in DOMAIN t}

\* the supported dtypes
AllDtypes ==
    {"bool"} \cup Range(integer_dtypes) \cup Range(float_dtypes) \cup Range(complex_dtypes)

complex_to_real_dtype_map ==
    ("complex128" :> "float64") @@ ("complex64" :> "float32") @@ ("complex32" :> "float16")

\* real_to_complex_dtype_map without its bfloat16 entry
real_to_complex_dtype_map_no_bfloat16 ==
    ("float16" :> "complex32") @@ ("float32" :> "complex64") @@ ("float64" :> "complex128")

real_to_complex_dtype_map ==
    ("float16" :> "complex32") @@ ("bfloat16" :> "complex64")
        @@ ("float32" :> "complex64") @@ ("float64" :> "complex128")

\* a dict lookup: KeyError when the key is missing
corresponding_real_dtype(dtype) ==
    IF dtype \in DOMAIN complex_to_real_dtype_map
    THEN Ok(complex_to_real_dtype_map[dtype])
    ELSE Raise("KeyError")

corresponding_complex_dtype(dtype) ==
    IF dtype \in DOMAIN real_to_complex_dtype_map
    THEN Ok(real_to_complex_dtype_map[dtype])
    ELSE Raise("KeyError")

dtype_to_type(dtype) ==
    IF dtype = "bool" THEN Ok("bool")
    ELSE IF InTuple(dtype, integer_dtypes) THEN Ok("int")
    ELSE IF InTuple(dtype, float_dtypes) THEN Ok("float")
    ELSE IF InTuple(dtype, complex_dtypes) THEN Ok("complex")
    ELSE Raise("ValueError")

type_to_dtype_map ==
    ("bool" :> "bool") @@ ("int" :> "int64") @@ ("float" :> "float64")
        @@ ("complex" :> "complex128")

type_to_dtype(typ) ==
    IF typ \in DOMAIN type_to_dtype_map
    THEN Ok(type_to_dtype_map[typ])
    ELSE Raise("KeyError")

ordered_types == <<"bool", "int", "float", "complex">>

get_higher_type(a, b) ==
    IF ~InTuple(a, ordered_types) \/ ~InTuple(b, ordered_types) THEN Raise("AssertionError")
    ELSE IF a = b THEN Ok(a)
    ELSE LET loop[i \in 1..(Len(ordered_types) + 1)] ==
                 IF i > Len(ordered_types) THEN Raise("ValueError")
                 ELSE IF a = ordered_types[i] THEN Ok(b)
                 ELSE IF b = ordered_types[i] THEN Ok(a)
                 ELSE loop[i + 1]
         IN  loop[1]

\* the tuple of predicates can_safe_cast_to scans, lowest category first
safe_cast_scan_ascending ==
    <<"is_boolean_dtype", "is_integer_dtype", "is_float_dtype", "is_complex_dtype">>

\* the tuple of predicates can_safe_cast_to scans (line 559)
safe_cast_scan == <<"is_complex_dtype", "is_float_dtype", "is_integer_dtype", "is_boolean_dtype">>

\* fn(dtype) for a predicate fn of the tuple
apply_predicate(fn, dtype) ==
    CASE fn = "is_complex_dtype" -> is_complex_dtype(dtype)
      [] fn = "is_float_dtype" -> is_float_dtype(dtype)
      [] fn = "is_integer_dtype" -> is_integer_dtype(dtype)
      [] fn = "is_boolean_dtype" -> is_boolean_dtype(dtype)

can_safe_cast_to(cast_to, cast_from) ==
    LET loop[i \in 1..(Len(safe_cast_scan) + 1)] ==
            IF i > Len(safe_cast_scan) THEN Raise("ValueError")
            ELSE IF apply_predicate(safe_cast_scan[i], cast_to) THEN Ok(TRUE)
            ELSE IF apply_predicate(safe_cast_scan[i], cast_from) THEN Ok(FALSE)
            ELSE loop[i + 1]
    IN  loop[1]

(***************************************************************************)
(* The process-wide default dtype configuration.                           *)
(***************************************************************************)
get_default_dtype == default_dtype

DefaultDtypes == {"float32", "float64"}

(***************************************************************************)
(* get_higher_dtype                                                        *)
(***************************************************************************)
ordered_datatypes ==
    << <<"bool">>,
       <<"uint8", "int8">>,
       <<"int16">>,
       <<"int32">>,
       <<"int64">>,
       <<"float16", "bfloat16">>,
       <<"float32">>,
       <<"float64">>,
       <<"complex32">>,
       <<"complex64">>,
       <<"complex128">> >>

extract_dtype(x) ==
    IF x.tag = "None" THEN Ok(None)
    ELSE IF x.tag = "dtype" THEN Ok(x.dtype)
    ELSE IF isinstance_TensorLike(x) THEN Ok(x.dtype)
    ELSE IF isinstance_Number(x) THEN type_to_dtype(x.typ)
    ELSE Raise("RuntimeError")

\* higher_dtype_scan returning the operand found first, the lower one
higher_dtype_scan_lower(a, b) ==
    LET loop[idx \in 1..(Len(ordered_datatypes) + 1)] ==
            IF idx > Len(ordered_datatypes) THEN Raise("RuntimeError")
            ELSE LET dtypes == ordered_datatypes[idx]
                 IN  IF InTuple(a, dtypes) /\ InTuple(b, dtypes)
                     THEN IF idx + 1 > Len(ordered_datatypes)
                          THEN Raise("IndexError")
                          ELSE Ok(ordered_datatypes[idx + 1][1])
                     ELSE IF InTuple(a, dtypes) THEN Ok(a)
                     ELSE IF InTuple(b, dtypes) THEN Ok(b)
                     ELSE loop[idx + 1]
    IN  loop[1]

\* higher_dtype_scan keeping its first operand when both are in one tuple
higher_dtype_scan_keep_first(a, b) ==
    LET loop[idx \in 1..(Len(ordered_datatypes) + 1)] ==
            IF idx > Len(ordered_datatypes) THEN Raise("RuntimeError")
            ELSE LET dtypes == ordered_datatypes[idx]
                 IN  IF InTuple(a, dtypes) /\ InTuple(b, dtypes) THEN Ok(a)
                     ELSE IF InTuple(a, dtypes) THEN Ok(b)
                     ELSE IF InTuple(b, dtypes) THEN Ok(a)
                     ELSE loop[idx + 1]
    IN  loop[1]

\* the scan over ordered_datatypes, for two different dtypes a and b
higher_dtype_scan(a, b) ==
    LET loop[idx \in 1..(Len(ordered_datatypes) + 1)] ==
            IF idx > Len(ordered_datatypes) THEN Raise("RuntimeError")
            ELSE LET dtypes == ordered_datatypes[idx]
                 IN  IF InTuple(a, dtypes) /\ InTuple(b, dtypes)
                     THEN IF idx + 1 > Len(ordered_datatypes)
                          THEN Raise("IndexError")
                          ELSE Ok(ordered_datatypes[idx + 1][1])
                     ELSE IF InTuple(a, dtypes) THEN Ok(b)
                     ELSE IF InTuple(b, dtypes) THEN Ok(a)
                     ELSE loop[idx + 1]
    IN  loop[1]

\* lines 497-530, a and b being the outcomes of _extract_dtype
higher_of_extracted(a, b) ==
    IF a.status # "ok" THEN a
    ELSE IF b.status # "ok" THEN b
    ELSE IF a.val = b.val THEN Ok(a.val)
    ELSE IF a.val = None THEN Ok(b.val)
    ELSE IF b.val = None THEN Ok(a.val)
    ELSE higher_dtype_scan(a.val, b.val)

get_higher_dtype(a, b) ==
    IF a.tag = "Other" \/ b.tag = "Other" THEN Raise("AssertionError")
    ELSE higher_of_extracted(extract_dtype(a), extract_dtype(b))

(***************************************************************************)
(* elementwise_dtypes                                                      *)
(***************************************************************************)
\* computation_dtype_map without its complex entry
computation_dtype_map_no_complex == ("bfloat16" :> "float32") @@ ("float16" :> "float32")

computation_dtype_map ==
    ("bfloat16" :> "float32") @@ ("float16" :> "float32") @@ ("complex32" :> "complex64")

get_computation_dtype(dtype) ==
    IF dtype \in DOMAIN computation_dtype_map THEN computation_dtype_map[dtype] ELSE dtype

ELEMENTWISE_TYPE_PROMOTION_KIND ==
    {"DEFAULT", "INT_TO_FLOAT", "ALWAYS_BOOL", "OP_MATH", "COMPLEX_TO_FLOAT", "BOOL_TO_LONG"}

\* the loop of lines 742-756: the highest Python type over the operands
find_highest_type(args) ==
    LET higher(st, t) == IF t.status # "ok" THEN t ELSE get_higher_type(st.val, t.val)
        step(st, x) ==
            IF st.status # "ok" THEN st
            ELSE IF ~(isinstance_Number(x) \/ isinstance_TensorLike(x)) THEN Raise("ValueError")
            ELSE IF isinstance_Number(x) THEN get_higher_type(st.val, x.typ)
            ELSE higher(st, dtype_to_type(x.dtype))
        loop[i \in 0..Len(args)] ==
            IF i = 0 THEN Ok("bool") ELSE step(loop[i - 1], args[i])
    IN  loop[Len(args)]

\* `filter` is the set of the dtypes the filter function accepts
find_highest_dtype_filtered(args, filter, float_as_complex, all_tensors_equal) ==
    LET assign(st, field, h) ==
            IF h.status # "ok" THEN [st EXCEPT !.status = h.status]
            ELSE [st EXCEPT ![field] = h.val]
        fold(st, field, d) == assign(st, field, get_higher_dtype(DT(st[field]), DT(d)))
        visit(st, x, dtype_) ==
            IF dtype_.status # "ok" THEN [st EXCEPT !.status = dtype_.status]
            ELSE IF ndim(x) = 0 /\ ~all_tensors_equal
            THEN fold(st, "zero_dim_tensor_dtype", dtype_.val)
            ELSE fold(st, "one_plus_dim_tensor_dtype", dtype_.val)
        step(st, x) ==
            IF st.status # "ok" THEN st
            ELSE IF ~(isinstance_TensorLike(x) /\ x.dtype \in filter) THEN st
            ELSE visit(st, x, IF float_as_complex /\ is_float_dtype(x.dtype)
                              THEN corresponding_complex_dtype(x.dtype)
                              ELSE Ok(x.dtype))
        loop[i \in 0..Len(args)] ==
            IF i = 0
            THEN [status |-> "ok", zero_dim_tensor_dtype |-> None,
                  one_plus_dim_tensor_dtype |-> None]
            ELSE step(loop[i - 1], args[i])
        prefer(fin) ==
            IF fin.status # "ok" THEN Raise(fin.status)
            ELSE IF fin.one_plus_dim_tensor_dtype # None
            THEN Ok(fin.one_plus_dim_tensor_dtype)
            ELSE Ok(fin.zero_dim_tensor_dtype)
    IN  prefer(loop[Len(args)])

is_float_or_complex_dtype(x) == is_float_dtype(x) \/ is_complex_dtype(x)

Accepts_is_float_dtype == {d \in AllDtypes : is_float_dtype(d)}

Accepts_is_integer_dtype == {d \in AllDtypes : is_integer_dtype(d)}

Accepts_is_float_or_complex_dtype == {d \in AllDtypes : is_float_or_complex_dtype(d)}

\* has_one_plus_dim_complex_tensor without the test of ndim
has_complex_tensor_any_rank(args) ==
    \E i \in DOMAIN args :
        isinstance_TensorLike(args[i]) /\ is_complex_dtype(args[i].dtype)

\* lines 796-800
has_one_plus_dim_complex_tensor(args) ==
    \E i \in DOMAIN args :
        isinstance_TensorLike(args[i]) /\ ndim(args[i]) > 0 /\ is_complex_dtype(args[i].dtype)

\* `x = y if x is None else x`, x being the outcome r of a scan
if_none(r, y) == IF r.status = "ok" /\ r.val = None THEN y ELSE r

\* base_result_dtype with the int and float scans made as the complex branch's second
\* scan is made, with all_tensors_equal
base_result_dtype_rank_blind(args, highest_type) ==
    IF highest_type = "float"
    THEN if_none(find_highest_dtype_filtered(args, Accepts_is_float_dtype, FALSE, TRUE),
                 Ok(get_default_dtype))
    ELSE IF highest_type = "complex"
    THEN if_none(IF has_one_plus_dim_complex_tensor(args)
                 THEN find_highest_dtype_filtered(args, Accepts_is_float_or_complex_dtype,
                                                  TRUE, FALSE)
                 ELSE find_highest_dtype_filtered(args, Accepts_is_float_or_complex_dtype,
                                                  TRUE, TRUE),
                 corresponding_complex_dtype(get_default_dtype))
    ELSE IF highest_type = "int"
    THEN if_none(find_highest_dtype_filtered(args, Accepts_is_integer_dtype, FALSE, TRUE),
                 Ok("int64"))
    ELSE Ok("bool")

\* lines 786-825: the result dtype before the promotion kind is applied
base_result_dtype(args, highest_type) ==
    IF highest_type = "float"
    THEN if_none(find_highest_dtype_filtered(args, Accepts_is_float_dtype, FALSE, FALSE),
                 Ok(get_default_dtype))
    ELSE IF highest_type = "complex"
    THEN if_none(IF has_one_plus_dim_complex_tensor(args)
                 THEN find_highest_dtype_filtered(args, Accepts_is_float_or_complex_dtype,
                                                  TRUE, FALSE)
                 ELSE find_highest_dtype_filtered(args, Accepts_is_float_or_complex_dtype,
                                                  TRUE, TRUE),
                 corresponding_complex_dtype(get_default_dtype))
    ELSE IF highest_type = "int"
    THEN if_none(find_highest_dtype_filtered(args, Accepts_is_integer_dtype, FALSE, FALSE),
                 Ok("int64"))
    ELSE Ok("bool")

\* lines 827-851: Ok(<<computation dtype, result dtype>>) for the given result dtype
apply_promotion_kind(result_dtype, type_promotion_kind) ==
    IF type_promotion_kind = "DEFAULT" THEN Ok(<<result_dtype, result_dtype>>)
    ELSE IF type_promotion_kind = "OP_MATH"
    THEN Ok(<<get_computation_dtype(result_dtype), result_dtype>>)
    ELSE IF type_promotion_kind = "INT_TO_FLOAT"
    THEN IF is_integer_dtype(result_dtype) \/ is_boolean_dtype(result_dtype)
         THEN Ok(<<get_computation_dtype(get_default_dtype), get_default_dtype>>)
         ELSE Ok(<<get_computation_dtype(result_dtype), result_dtype>>)
    ELSE IF type_promotion_kind = "COMPLEX_TO_FLOAT"
    THEN IF is_complex_dtype(result_dtype)
         THEN IF corresponding_real_dtype(result_dtype).status # "ok"
              THEN corresponding_real_dtype(result_dtype)
              ELSE Ok(<<get_computation_dtype(result_dtype),
                        corresponding_real_dtype(result_dtype).val>>)
         ELSE Ok(<<get_computation_dtype(result_dtype), result_dtype>>)
    ELSE IF type_promotion_kind = "BOOL_TO_LONG"
    THEN IF is_boolean_dtype(result_dtype)
         THEN Ok(<<"int64", "int64">>)
         ELSE Ok(<<result_dtype, result_dtype>>)
    ELSE IF type_promotion_kind = "ALWAYS_BOOL"
    THEN Ok(<<result_dtype, "bool">>)
    ELSE Raise("ValueError")

NotNone(x) == x.tag # "None"

\* an exception raised by a step ends the call; otherwise the next step runs
result_dtype_of(args, highest_type) ==
    IF highest_type.status # "ok" THEN highest_type
    ELSE base_result_dtype(args, highest_type.val)

promoted(result_dtype, type_promotion_kind) ==
    IF result_dtype.status # "ok" THEN result_dtype
    ELSE apply_promotion_kind(result_dtype.val, type_promotion_kind)

elementwise_dtypes(xs, type_promotion_kind) ==
    promoted(result_dtype_of(SelectSeq(xs, NotNone), find_highest_type(SelectSeq(xs, NotNone))),
             type_promotion_kind)

(***************************************************************************)
(* Shape and stride utilities.                                             *)
(***************************************************************************)
validate_dim_length(length) == IF length >= 0 THEN Ok(None) ELSE Raise("AssertionError")

validate_shape(shape) ==
    IF \E i \in DOMAIN shape : validate_dim_length(shape[i]).status # "ok"
    THEN Raise("AssertionError")
    ELSE Ok(None)

canonicalize_dim(rank, idx) ==
    LET rank_ == IF rank # 0 THEN rank ELSE 1
        idx_ == IF idx < 0 THEN idx + rank_ ELSE idx
    IN  IF idx >= 0 /\ idx < rank_ THEN Ok(idx)
        ELSE IF idx_ < 0 \/ idx_ > rank_ THEN Raise("ValueError")
        ELSE Ok(idx_)

\* dims is None (NoneArg) or Some(sequence of indices); a tuple is a sequence
reduction_dims(shape, dims) ==
    LET canon == [i \in DOMAIN dims.val |-> canonicalize_dim(Len(shape), dims.val[i])]
        failed == {i \in DOMAIN canon : canon[i].status # "ok"}
        first == CHOOSE i \in failed : \A j \in failed : i <= j
        dims_ == [i \in DOMAIN canon |-> canon[i].val]
    IN  IF dims.tag = "None" THEN Ok([i \in 1..Len(shape) |-> i - 1])
        ELSE IF failed # {} THEN canon[first]
        ELSE IF Len(dims_) # Cardinality(Range(dims_))
        THEN RaiseMsg("RuntimeError", "duplicate value in the list of dims")
        ELSE Ok(dims_)

Reversed(s) == [i \in 1..Len(s) |-> s[Len(s) + 1 - i]]

\* make_contiguous_strides_for multiplying by shape[:-1] instead of shape[1:]
make_contiguous_strides_for_leading(shape) ==
    IF validate_shape(shape).status # "ok" THEN validate_shape(shape)
    ELSE IF Len(shape) = 0 THEN Ok(<<>>)
    ELSE LET rest == Reversed(SubSeq(shape, 1, Len(shape) - 1))
             loop[i \in 0..Len(rest)] ==
                 IF i = 0 THEN [multiplier |-> 1, strides |-> <<1>>]
                 ELSE LET multiplier == rest[i] * loop[i - 1].multiplier
                      IN  [multiplier |-> multiplier,
                           strides |-> Append(loop[i - 1].strides, multiplier)]
         IN  Ok(Reversed(loop[Len(rest)].strides))

make_contiguous_strides_for(shape) ==
    IF validate_shape(shape).status # "ok" THEN validate_shape(shape)
    ELSE IF Len(shape) = 0 THEN Ok(<<>>)
    ELSE LET rest == Reversed(Tail(shape))
             loop[i \in 0..Len(rest)] ==
                 IF i = 0 THEN [multiplier |-> 1, strides |-> <<1>>]
                 ELSE LET multiplier == rest[i] * loop[i - 1].multiplier
                      IN  [multiplier |-> multiplier,
                           strides |-> Append(loop[i - 1].strides, multiplier)]
         IN  Ok(Reversed(loop[Len(rest)].strides))

\* a contiguous tensor of the given dtype, shape and device
Tensor(dt, sh, dev) == TensorLike(dt, sh, make_contiguous_strides_for(sh).val, dev)

(***************************************************************************)
(* TensorMeta                                                              *)
(***************************************************************************)
Truthy(kw) == kw.tag # "None" /\ Len(kw.val) > 0

TensorMeta_new(tensorlike, shape, strides, dtype, device) ==
    LET isnum == isinstance_Number(tensorlike)
        inferred_dtype == IF isnum THEN type_to_dtype(tensorlike.typ) ELSE Ok(tensorlike.dtype)
        pick(kw, inferred) == IF kw.tag = "None" THEN inferred ELSE kw.val
    IN  IF isnum /\ (Truthy(shape) \/ Truthy(strides)) THEN Raise("AssertionError")
        ELSE IF isnum /\ inferred_dtype.status # "ok" THEN inferred_dtype
        ELSE IF ~isnum /\ tensorlike.tag # "None" /\ ~isinstance_TensorLike(tensorlike)
        THEN Raise("AssertionError")
        ELSE IF tensorlike.tag = "None"
        THEN IF shape.tag = "None" \/ strides.tag = "None" \/ dtype.tag = "None"
                   \/ device.tag = "None"
             THEN Raise("AssertionError")
             ELSE Ok(TensorLike(dtype.val, shape.val, strides.val, device.val))
        ELSE Ok(TensorLike(pick(dtype, inferred_dtype.val),
                           pick(shape, IF isnum THEN <<>> ELSE tensorlike.shape),
                           pick(strides, IF isnum THEN <<>> ELSE tensorlike.strides),
                           pick(device, IF isnum THEN "cpu" ELSE tensorlike.device)))

Min(a, b) == IF a <= b THEN a ELSE b

compare_tensor_meta(a, b) ==
    IF ~isinstance_TensorLike(a) \/ ~isinstance_TensorLike(b) THEN RaiseMsg("AssertionError", "isinstance")
    ELSE IF \E i \in 1..Min(Len(a.shape), Len(b.shape)) : a.shape[i] # b.shape[i]
    THEN RaiseMsg("AssertionError", "Shapes")
    ELSE IF a.dtype # b.dtype THEN RaiseMsg("AssertionError", "Dtypes")
    ELSE IF a.device # b.device THEN RaiseMsg("AssertionError", "Devices")
    ELSE Ok(None)

(***************************************************************************)
(* Operand compatibility checks.                                           *)
(***************************************************************************)
is_same_shape(a, b) == a = b

\* is_cpu_scalar_tensor without the test of the device
is_scalar_tensor_any_device(a) == isinstance_TensorLike(a) /\ ndim(a) = 0

is_cpu_scalar_tensor(a) == isinstance_TensorLike(a) /\ ndim(a) = 0 /\ a.device = "cpu"

check_same_device(args, allow_cpu_scalar_tensors) ==
    LET step(st, arg) ==
            IF st.status # "ok" THEN st
            ELSE IF isinstance_Number(arg) THEN st
            ELSE IF isinstance_TensorLike(arg)
            THEN IF allow_cpu_scalar_tensors /\ is_cpu_scalar_tensor(arg) THEN st
                 ELSE LET device == IF st.val.tag = "None" THEN Some(arg.device) ELSE st.val
                      IN  IF device.val # arg.device
                          THEN RaiseMsg("RuntimeError", "Tensor on device")
                          ELSE Ok(device)
            ELSE RaiseMsg("RuntimeError", "Unexpected type")
        loop[i \in 0..Len(args)] ==
            IF i = 0 THEN Ok(NoneArg) ELSE step(loop[i - 1], args[i])
        fin == loop[Len(args)]
    IN  IF Len(args) <= 1 THEN Ok(None)
        ELSE IF fin.status # "ok" THEN fin
        ELSE Ok(None)

check_same_shape(args, allow_cpu_scalar_tensors) ==
    LET step(st, arg) ==
            IF st.status # "ok" THEN st
            ELSE IF isinstance_Number(arg) THEN st
            ELSE IF isinstance_TensorLike(arg)
            THEN IF allow_cpu_scalar_tensors /\ is_cpu_scalar_tensor(arg) THEN st
                 ELSE LET shape == IF st.val.tag = "None" THEN Some(arg.shape) ELSE st.val
                      IN  IF ~is_same_shape(shape.val, arg.shape)
                          THEN RaiseMsg("RuntimeError", "Shape")
                          ELSE Ok(shape)
            ELSE RaiseMsg("RuntimeError", "Unexpected type")
        loop[i \in 0..Len(args)] ==
            IF i = 0 THEN Ok(NoneArg) ELSE step(loop[i - 1], args[i])
        fin == loop[Len(args)]
    IN  IF fin.status # "ok" THEN fin ELSE Ok(None)

\* check_same_dtype with the check of the Numbers' types, which the code disables,
\* carried out
check_same_dtype_scalars_checked(args) ==
    LET same_kind(full_dtype, scalar_type, arg_type) ==
            IF arg_type.status # "ok" THEN arg_type
            ELSE IF arg_type.val # scalar_type
            THEN RaiseMsg("RuntimeError", <<"Tensor with corresponding Python type">>)
            ELSE Ok([full_dtype |-> full_dtype, scalar_type |-> scalar_type])
        visit(arg, full_dtype, scalar_type) ==
            IF scalar_type.status # "ok" THEN scalar_type
            ELSE IF full_dtype # arg.dtype
            THEN RaiseMsg("RuntimeError", <<"Tensor with dtype", arg.dtype, full_dtype>>)
            ELSE same_kind(full_dtype, scalar_type.val, dtype_to_type(arg.dtype))
        number(st, scalar_type, arg) ==
            IF scalar_type # arg.typ
            THEN RaiseMsg("RuntimeError", <<"Scalar of type">>)
            ELSE Ok([st.val EXCEPT !.scalar_type = scalar_type])
        step(st, arg) ==
            IF st.status # "ok" THEN st
            ELSE IF isinstance_Number(arg)
            THEN number(st, IF st.val.scalar_type = None THEN arg.typ ELSE st.val.scalar_type,
                        arg)
            ELSE IF isinstance_TensorLike(arg)
            THEN visit(arg,
                       IF st.val.full_dtype = None THEN arg.dtype ELSE st.val.full_dtype,
                       IF st.val.scalar_type = None
                       THEN dtype_to_type(arg.dtype)
                       ELSE Ok(st.val.scalar_type))
            ELSE RaiseMsg("RuntimeError", <<"Unexpected type">>)
        loop[i \in 0..Len(args)] ==
            IF i = 0 THEN Ok([full_dtype |-> None, scalar_type |-> None])
            ELSE step(loop[i - 1], args[i])
        done(fin) == IF fin.status # "ok" THEN fin ELSE Ok(None)
    IN  done(loop[Len(args)])

check_same_dtype(args) ==
    LET same_kind(full_dtype, scalar_type, arg_type) ==
            IF arg_type.status # "ok" THEN arg_type
            ELSE IF arg_type.val # scalar_type
            THEN RaiseMsg("RuntimeError", <<"Tensor with corresponding Python type">>)
            ELSE Ok([full_dtype |-> full_dtype, scalar_type |-> scalar_type])
        visit(arg, full_dtype, scalar_type) ==
            IF scalar_type.status # "ok" THEN scalar_type
            ELSE IF full_dtype # arg.dtype
            THEN RaiseMsg("RuntimeError", <<"Tensor with dtype", arg.dtype, full_dtype>>)
            ELSE same_kind(full_dtype, scalar_type.val, dtype_to_type(arg.dtype))
        step(st, arg) ==
            IF st.status # "ok" THEN st
            ELSE IF isinstance_Number(arg) THEN st
            ELSE IF isinstance_TensorLike(arg)
            THEN visit(arg,
                       IF st.val.full_dtype = None THEN arg.dtype ELSE st.val.full_dtype,
                       IF st.val.scalar_type = None
                       THEN dtype_to_type(arg.dtype)
                       ELSE Ok(st.val.scalar_type))
            ELSE RaiseMsg("RuntimeError", <<"Unexpected type">>)
        loop[i \in 0..Len(args)] ==
            IF i = 0 THEN Ok([full_dtype |-> None, scalar_type |-> None])
            ELSE step(loop[i - 1], args[i])
        done(fin) == IF fin.status # "ok" THEN fin ELSE Ok(None)
    IN  done(loop[Len(args)])

(***************************************************************************)
(* The inputs explored.                                                    *)
(***************************************************************************)
SeqsUpTo(S, n) == UNION {[1..k -> S] : k \in 0..n}

Numbers == {Num(t) : t \in Range(ordered_types)}

Devices == {"cpu", "cuda"}

\* elementwise_dtypes reads only dtype and ndim of a tensor: one shape per case of ndim
PromoTensors == {Tensor(d, sh, "cpu") : d \in AllDtypes, sh \in {<<>>, <<2>>}}

PromoOperands == Numbers \cup PromoTensors \cup {NoneArg, OtherObj}

\* operands chosen for the folds of get_higher_dtype over three and more tensors: both
\* dtypes of each two-element tuple of ordered_datatypes, float and complex tensors of
\* both cases of ndim, a Number and None
FoldOperands ==
    {Tensor("uint8", <<2>>, "cpu"), Tensor("int8", <<2>>, "cpu"),
     Tensor("float16", <<2>>, "cpu"), Tensor("bfloat16", <<2>>, "cpu"),
     Tensor("bfloat16", <<>>, "cpu"), Tensor("complex32", <<>>, "cpu"),
     Tensor("complex64", <<2>>, "cpu"), Num("float"), NoneArg}

\* reduction_dims reads only the length of the shape: one shape per rank
ReductionShapes == {[i \in 1..r |-> 2] : r \in 0..MaxShapeRank}

ReductionIndices == (0 - (MaxShapeRank + 1))..(MaxShapeRank + 1)

PromoKinds == ELEMENTWISE_TYPE_PROMOTION_KIND \cup {"NOT_A_KIND"}

HigherDtypeArgs ==
    {DT(d) : d \in AllDtypes} \cup {NoneArg, OtherObj} \cup Numbers
        \cup {Tensor(d, <<>>, "cpu") : d \in {"int8", "bfloat16"}}

DimLens == {2, 3, 4}

Shapes == SeqsUpTo(DimLens, MaxShapeRank)

\* shapes given to make_contiguous_strides_for: lengths 0 and -1 besides DimLens
StrideShapes == SeqsUpTo(DimLens \cup {0, -1}, MaxShapeRank)

MetaTensors == {Tensor(d, sh, dev) : d \in {"float32", "int64"}, sh \in Shapes, dev \in Devices}

\* shapes of the operand lists of the same-shape / same-device checks: rank 0, equal
\* rank with a differing length, and a shape extending another
CheckShapes == {<<>>, <<2>>, <<2, 3>>, <<2, 4>>, <<2, 3, 4>>}

CheckOperands ==
    {Tensor("float32", sh, dev) : sh \in CheckShapes, dev \in Devices}
        \cup {Num("float"), OtherObj}

\* operands of check_same_dtype: Numbers of every type, tensors of one dtype per kind
\* and a second integer dtype, and an object of another type
DtypeCheckOperands ==
    Numbers \cup {OtherObj}
        \cup {Tensor(d, <<2>>, "cpu") : d \in {"bool", "int32", "int64", "float32", "complex64"}}

MetaExamples ==
    Numbers \cup {NoneArg, OtherObj}
        \cup {Tensor(d, sh, dev) : d \in {"float16", "int64"}, sh \in {<<>>, <<2, 3>>}, dev \in Devices}

\* the keyword arguments given to TensorMeta: none, all four, or one of them
MetaKwargs ==
    {[shape |-> NoneArg, strides |-> NoneArg, dtype |-> NoneArg, device |-> NoneArg],
     [shape |-> Some(<<2, 3>>), strides |-> Some(<<3, 1>>), dtype |-> Some("int32"),
      device |-> Some("cuda")],
     [shape |-> Some(<<>>), strides |-> Some(<<>>), dtype |-> NoneArg, device |-> NoneArg],
     [shape |-> Some(<<4>>), strides |-> NoneArg, dtype |-> NoneArg, device |-> NoneArg],
     [shape |-> NoneArg, strides |-> NoneArg, dtype |-> Some("int32"), device |-> NoneArg]}

(***************************************************************************)
(* The state machine: one action per function called.                      *)
(***************************************************************************)
Init ==
    /\ default_dtype = "float32"
    /\ pc = "idle"
    /\ call = [fn |-> "none"]
    /\ ret = Ok(None)

Returns(c, r) ==
    /\ pc' = "returned"
    /\ call' = c
    /\ ret' = r
    /\ UNCHANGED default_dtype

\* torch.set_default_dtype(d)
set_default_dtype ==
    /\ pc = "idle"
    /\ \E d \in DefaultDtypes : default_dtype' = d
    /\ UNCHANGED <<pc, call, ret>>

Call_type_to_dtype ==
    /\ pc = "idle"
    /\ \E typ \in Range(ordered_types) \cup {"str"} :
           Returns([fn |-> "type_to_dtype", typ |-> typ], type_to_dtype(typ))

Call_TensorMeta ==
    /\ pc = "idle"
    /\ \E x \in MetaExamples, kw \in MetaKwargs :
           Returns([fn |-> "TensorMeta", tensorlike |-> x, kwargs |-> kw],
                   TensorMeta_new(x, kw.shape, kw.strides, kw.dtype, kw.device))

Call_get_higher_dtype ==
    /\ pc = "idle"
    /\ \E a \in HigherDtypeArgs, b \in HigherDtypeArgs :
           Returns([fn |-> "get_higher_dtype", a |-> a, b |-> b], get_higher_dtype(a, b))

Call_elementwise_dtypes ==
    /\ pc = "idle"
    /\ \E k \in PromoKinds :
           \/ \E n \in 0..MaxArgs : \E xs \in [1..n -> PromoOperands] :
                  Returns([fn |-> "elementwise_dtypes", args |-> xs, type_promotion_kind |-> k],
                          elementwise_dtypes(xs, k))
           \/ \E n \in 0..MaxFoldArgs : \E xs \in [1..n -> FoldOperands] :
                  Returns([fn |-> "elementwise_dtypes", args |-> xs, type_promotion_kind |-> k],
                          elementwise_dtypes(xs, k))

Call_canonicalize_dim ==
    /\ pc = "idle"
    /\ \E rank \in 0..MaxRank, idx \in (0 - (MaxRank + 2))..(MaxRank + 2) :
           Returns([fn |-> "canonicalize_dim", rank |-> rank, idx |-> idx],
                   canonicalize_dim(rank, idx))

Call_compare_tensor_meta ==
    /\ pc = "idle"
    /\ \E a \in MetaTensors \cup {OtherObj}, b \in MetaTensors \cup {OtherObj} :
           Returns([fn |-> "compare_tensor_meta", a |-> a, b |-> b], compare_tensor_meta(a, b))

Call_check_same_device ==
    /\ pc = "idle"
    /\ \E n \in 0..MaxCheckArgs, allow \in BOOLEAN : \E xs \in [1..n -> CheckOperands] :
           Returns([fn |-> "check_same_device", args |-> xs, allow_cpu_scalar_tensors |-> allow],
                   check_same_device(xs, allow))

Call_check_same_shape ==
    /\ pc = "idle"
    /\ \E n \in 0..MaxCheckArgs, allow \in BOOLEAN : \E xs \in [1..n -> CheckOperands] :
           Returns([fn |-> "check_same_shape", args |-> xs, allow_cpu_scalar_tensors |-> allow],
                   check_same_shape(xs, allow))

Call_make_contiguous_strides_for ==
    /\ pc = "idle"
    /\ \E shape \in StrideShapes :
           Returns([fn |-> "make_contiguous_strides_for", shape |-> shape],
                   make_contiguous_strides_for(shape))

\* "quint8" is a torch dtype outside the four categories
Call_reduction_dims ==
    /\ pc = "idle"
    /\ \E shape \in ReductionShapes :
           \/ Returns([fn |-> "reduction_dims", shape |-> shape, dims |-> NoneArg],
                      reduction_dims(shape, NoneArg))
           \/ \E n \in 0..MaxDims : \E ds \in [1..n -> ReductionIndices] :
                  Returns([fn |-> "reduction_dims", shape |-> shape, dims |-> Some(ds)],
                          reduction_dims(shape, Some(ds)))

Call_can_safe_cast_to ==
    /\ pc = "idle"
    /\ \E cast_to \in AllDtypes \cup {"quint8"}, cast_from \in AllDtypes \cup {"quint8"} :
           Returns([fn |-> "can_safe_cast_to", cast_to |-> cast_to, cast_from |-> cast_from],
                   can_safe_cast_to(cast_to, cast_from))

Call_check_same_dtype ==
    /\ pc = "idle"
    /\ \E n \in 0..MaxCheckArgs : \E xs \in [1..n -> DtypeCheckOperands] :
           Returns([fn |-> "check_same_dtype", args |-> xs], check_same_dtype(xs))

\* the caller takes the outcome; the next call can start
Return ==
    /\ pc = "returned"
    /\ pc' = "idle"
    /\ call' = [fn |-> "none"]
    /\ ret' = Ok(None)
    /\ UNCHANGED default_dtype

Next ==
    \/ set_default_dtype
    \/ Call_type_to_dtype
    \/ Call_TensorMeta
    \/ Call_get_higher_dtype
    \/ Call_elementwise_dtypes
    \/ Call_canonicalize_dim
    \/ Call_compare_tensor_meta
    \/ Call_check_same_device
    \/ Call_check_same_shape
    \/ Call_check_same_dtype
    \/ Call_can_safe_cast_to
    \/ Call_reduction_dims
    \/ Call_make_contiguous_strides_for
    \/ Return

Spec == Init /\ [][Next]_vars

(***************************************************************************)
(* Vocabulary of the properties: the operands of a call, their scalar      *)
(* kinds, and the folds and tables the documentation describes.            *)
(***************************************************************************)
Returned(f) == pc = "returned" /\ call.fn = f

\* the operands of an elementwise_dtypes call: the arguments that are not None
Operands(xs) == SelectSeq(xs, NotNone)

\* every operand is a Number or a TensorLike
WellTyped(xs) == \A i \in DOMAIN xs : isinstance_Number(xs[i]) \/ isinstance_TensorLike(xs[i])

KindRank(t) == CHOOSE i \in DOMAIN ordered_types : ordered_types[i] = t

KindOfDtype(d) ==
    IF d = "bool" THEN "bool"
    ELSE IF d \in {"uint8", "int8", "int16", "int32", "int64"} THEN "int"
    ELSE IF d \in {"float16", "bfloat16", "float32", "float64"} THEN "float"
    ELSE "complex"

KindOf(x) == IF isinstance_Number(x) THEN x.typ ELSE KindOfDtype(x.dtype)

\* the highest scalar kind over the operands, bool when there are none
HighestKind(xs) ==
    LET ranks == {KindRank(KindOf(xs[i])) : i \in DOMAIN xs} \cup {1}
    IN  ordered_types[CHOOSE r \in ranks : \A q \in ranks : q <= r]

\* the get_higher_dtype fold of a sequence of dtypes, None for the empty sequence
FoldHigher(ds) ==
    LET f[i \in 0..Len(ds)] ==
            IF i = 0 THEN None ELSE get_higher_dtype(DT(f[i - 1]), DT(ds[i])).val
    IN  f[Len(ds)]

DtypesOf(ts) == [i \in DOMAIN ts |-> ts[i].dtype]

\* the corresponding complex dtype of a float or complex dtype (docstring table)
AsComplex(d) ==
    CASE d = "float16" -> "complex32"
      [] d = "bfloat16" -> "complex64"
      [] d = "float32" -> "complex64"
      [] d = "float64" -> "complex128"
      [] OTHER -> d

\* the computation dtype of a result dtype (docstring table of OP_MATH)
ComputationMapped(d) ==
    CASE d = "float16" -> "float32"
      [] d = "bfloat16" -> "float32"
      [] d = "complex32" -> "complex64"
      [] OTHER -> d

\* the corresponding floating point dtype of a complex dtype (docstring table)
RealOf(d) ==
    CASE d = "complex32" -> "float16"
      [] d = "complex64" -> "float32"
      [] d = "complex128" -> "float64"
      [] OTHER -> d

\* rank>0 tensors of the kind first, rank-0 tensors of the kind second, else the fallback
RankPreferred(xs, kind, fallback) ==
    LET OfKind(x) == isinstance_TensorLike(x) /\ KindOfDtype(x.dtype) = kind
        High(x) == ndim(x) > 0
        Zero(x) == ndim(x) = 0
        ts == SelectSeq(xs, OfKind)
        hi == SelectSeq(ts, High)
        lo == SelectSeq(ts, Zero)
    IN  IF Len(hi) > 0 THEN FoldHigher(DtypesOf(hi))
        ELSE IF Len(lo) > 0 THEN FoldHigher(DtypesOf(lo))
        ELSE fallback

\* C1: elementwise_dtypes, int and float branches: when the highest kind over the
\* operands is int (float), the base result dtype is the get_higher_dtype fold over
\* the integer (float) tensors of rank>0 if there is one, else over the rank-0 ones
\* if there is one, else int64 (the default float dtype); with kind DEFAULT the call
\* returns (r, r) for that r.
C1_IntFloatBranches ==
    (/\ Returned("elementwise_dtypes")
     /\ call.type_promotion_kind = "DEFAULT"
     /\ WellTyped(Operands(call.args))
     /\ HighestKind(Operands(call.args)) \in {"int", "float"})
    => LET xs == Operands(call.args)
           kind == HighestKind(xs)
           r == RankPreferred(xs, kind, IF kind = "int" THEN "int64" ELSE default_dtype)
       IN  ret = Ok(<<r, r>>)

\* a rank-1 float16 tensor next to a rank-0 float64 tensor gives float16
C1_Witness ==
    /\ Returned("elementwise_dtypes")
    /\ call.type_promotion_kind = "DEFAULT"
    /\ call.args = <<Tensor("float16", <<2>>, "cpu"), Tensor("float64", <<>>, "cpu")>>
    /\ ret = Ok(<<"float16", "float16">>)

BaseResult(xs) == elementwise_dtypes(xs, "DEFAULT").val[2]

\* C3: with kind BOOL_TO_LONG a bool base result gives (int64, int64); any other base
\* result r gives the result dtype r and the computation dtype computation-mapped(r),
\* as for OP_MATH.
C3_BoolToLong ==
    (/\ Returned("elementwise_dtypes")
     /\ call.type_promotion_kind = "BOOL_TO_LONG"
     /\ WellTyped(Operands(call.args)))
    => LET r == BaseResult(call.args)
       IN  ret = IF r = "bool" THEN Ok(<<"int64", "int64">>)
                 ELSE Ok(<<ComputationMapped(r), r>>)

\* C4: with kind COMPLEX_TO_FLOAT the computation dtype is computation-mapped(r) for
\* the base result r, so it stays complex when r is complex, and the result dtype is
\* the corresponding real dtype of r itself when r is complex, r otherwise.
C4_ComplexToFloat ==
    (/\ Returned("elementwise_dtypes")
     /\ call.type_promotion_kind = "COMPLEX_TO_FLOAT"
     /\ WellTyped(Operands(call.args)))
    => LET r == BaseResult(call.args)
       IN  /\ ret = Ok(<<ComputationMapped(r),
                         IF KindOfDtype(r) = "complex" THEN RealOf(r) ELSE r>>)
           /\ KindOfDtype(r) = "complex" => KindOfDtype(ret.val[1]) = "complex"

\* a complex32 tensor gives (complex64, float16)
C4_Witness ==
    /\ Returned("elementwise_dtypes")
    /\ call.type_promotion_kind = "COMPLEX_TO_FLOAT"
    /\ call.args = <<Tensor("complex32", <<2>>, "cpu")>>
    /\ ret = Ok(<<"complex64", "float16">>)

\* C5: type_to_dtype follows the default dtype configuration: float gives the default
\* float dtype and complex the corresponding complex dtype, bool gives bool and int
\* gives int64; so do a TensorMeta made from a Python float and get_higher_dtype given
\* a Python float.
C5_TypeToDtypeFollowsDefault ==
    /\ (Returned("type_to_dtype") /\ InTuple(call.typ, ordered_types))
       => ret = Ok(CASE call.typ = "bool" -> "bool"
                     [] call.typ = "int" -> "int64"
                     [] call.typ = "float" -> default_dtype
                     [] call.typ = "complex" -> AsComplex(default_dtype))
    /\ (/\ Returned("TensorMeta")
        /\ isinstance_Number(call.tensorlike)
        /\ call.tensorlike.typ = "float"
        /\ call.kwargs.dtype.tag = "None"
        /\ ret.status = "ok")
       => ret.val.dtype = default_dtype
    /\ (/\ Returned("get_higher_dtype")
        /\ isinstance_Number(call.a)
        /\ call.a.typ = "float"
        /\ call.b.tag = "None")
       => ret = Ok(default_dtype)

\* the 11 buckets of the dtype order
Buckets ==
    << {"bool"}, {"uint8", "int8"}, {"int16"}, {"int32"}, {"int64"},
       {"float16", "bfloat16"}, {"float32"}, {"float64"},
       {"complex32"}, {"complex64"}, {"complex128"} >>

BucketFirst ==
    << "bool", "uint8", "int16", "int32", "int64", "float16", "float32", "float64",
       "complex32", "complex64", "complex128" >>

BucketOf(d) == CHOOSE i \in DOMAIN Buckets : d \in Buckets[i]

DtypeOrNone(x) == IF x.tag = "None" THEN None ELSE x.dtype

\* C6: get_higher_dtype of two dtypes: an absent side gives the other; equal dtypes
\* give that dtype; the two members of a paired bucket give the first dtype of the
\* next bucket; otherwise the dtype of the higher bucket; it never raises.
C6_GetHigherDtype ==
    (/\ Returned("get_higher_dtype")
     /\ call.a.tag \in {"dtype", "None"}
     /\ call.b.tag \in {"dtype", "None"})
    => LET a == DtypeOrNone(call.a)
           b == DtypeOrNone(call.b)
       IN  ret = Ok(IF a = None THEN b
                    ELSE IF b = None THEN a
                    ELSE IF a = b THEN a
                    ELSE IF BucketOf(a) = BucketOf(b) THEN BucketFirst[BucketOf(a) + 1]
                    ELSE IF BucketOf(a) > BucketOf(b) THEN a
                    ELSE b)

\* uint8 and int8 give int16
C6_Witness ==
    /\ Returned("get_higher_dtype")
    /\ call.a = DT("uint8")
    /\ call.b = DT("int8")
    /\ ret = Ok("int16")

\* C7: canonicalize_dim fails with an out-of-bounds error or returns r with
\* 0 <= r < max(1, rank).
C7_CanonicalizeDimInBounds ==
    Returned("canonicalize_dim")
    => \/ ret.status = "ValueError"
       \/ /\ ret.status = "ok"
          /\ 0 <= ret.val
          /\ ret.val < (IF call.rank > 1 THEN call.rank ELSE 1)

\* C8: compare_tensor_meta of two tensor-likes completes iff they have the same shape
\* (rank and every length), dtype and device; the first mismatch in the order shape,
\* dtype, device is the one reported.
C8_CompareTensorMeta ==
    (/\ Returned("compare_tensor_meta")
     /\ isinstance_TensorLike(call.a)
     /\ isinstance_TensorLike(call.b))
    => ret = IF call.a.shape # call.b.shape THEN RaiseMsg("AssertionError", "Shapes")
             ELSE IF call.a.dtype # call.b.dtype THEN RaiseMsg("AssertionError", "Dtypes")
             ELSE IF call.a.device # call.b.device THEN RaiseMsg("AssertionError", "Devices")
             ELSE Ok(None)

\* the tensors of an operand list that a same-shape / same-device check compares
NonExempt(xs, allow) ==
    {i \in DOMAIN xs :
        /\ isinstance_TensorLike(xs[i])
        /\ ~(allow /\ Len(xs[i].shape) = 0 /\ xs[i].device = "cpu")}

C10_CheckSameDeviceRejects ==
    (Returned("check_same_device") /\ \E i \in DOMAIN call.args : call.args[i].tag = "Other")
    => ret.status # "ok"

\* the tensors of an operand list, in order
TensorsOf(xs) == SelectSeq(xs, isinstance_TensorLike)

ProductFrom(shape, lo) ==
    LET p[j \in lo..(Len(shape) + 1)] == IF j > Len(shape) THEN 1 ELSE shape[j] * p[j + 1]
    IN  p[lo]

\* C12: make_contiguous_strides_for returns row-major strides for a shape of
\* non-negative lengths: as many strides as lengths, the last one 1, stride[i] the
\* product of the lengths to the right of i; the empty shape gives the empty tuple; a
\* negative length fails validation.
C12_ContiguousStrides ==
    Returned("make_contiguous_strides_for")
    => IF \E i \in DOMAIN call.shape : call.shape[i] < 0
       THEN ret.status = "AssertionError"
       ELSE /\ ret.status = "ok"
            /\ Len(ret.val) = Len(call.shape)
            /\ Len(call.shape) > 0 => ret.val[Len(call.shape)] = 1
            /\ \A i \in DOMAIN call.shape : ret.val[i] = ProductFrom(call.shape, i + 1)

\* [2,3,4] gives (12,4,1)
C12_Witness ==
    /\ Returned("make_contiguous_strides_for")
    /\ call.shape = <<2, 3, 4>>
    /\ ret = Ok(<<12, 4, 1>>)

\* C13: can_safe_cast_to returns true iff the kind of cast_to is at least the kind of
\* cast_from under bool < int < float < complex, and never raises for supported dtypes.
C13_CanSafeCastTo ==
    (/\ Returned("can_safe_cast_to")
     /\ call.cast_to \in AllDtypes
     /\ call.cast_from \in AllDtypes)
    => ret = Ok(KindRank(KindOfDtype(call.cast_to)) >= KindRank(KindOfDtype(call.cast_from)))

\* casting from a float dtype to an integer dtype is not safe
C13_Witness ==
    /\ Returned("can_safe_cast_to")
    /\ call.cast_to = "int64"
    /\ call.cast_from = "float16"
    /\ ret = Ok(FALSE)

\* the operand list xs taken in the order p
Reordered(xs, p) == [i \in DOMAIN xs |-> xs[p[i]]]

\* C14: elementwise_dtypes does not depend on the order of its operands nor on the None
\* entries: for a list of Numbers, tensors and None entries, every permutation of the
\* list gives the same outcome under every promotion kind, and so does the list with the
\* None entries removed.
C14_OrderIndependent ==
    (/\ Returned("elementwise_dtypes")
     /\ WellTyped(Operands(call.args)))
    => /\ \A p \in Permutations(DOMAIN call.args) :
              elementwise_dtypes(Reordered(call.args, p), call.type_promotion_kind) = ret
       /\ elementwise_dtypes(Operands(call.args), call.type_promotion_kind) = ret

\* three tensors, the two dtypes of one tuple of ordered_datatypes first, and a None
C14_Witness ==
    /\ Returned("elementwise_dtypes")
    /\ call.args = <<Tensor("float16", <<2>>, "cpu"), NoneArg, Tensor("bfloat16", <<2>>, "cpu")>>
    /\ call.type_promotion_kind = "OP_MATH"
    /\ ret = Ok(<<"float32", "float32">>)

\* the dimension of a tensor of rank `rank` that the index idx denotes
Denoted(rank, idx) == IF idx < 0 THEN idx + rank ELSE idx

\* C15: reduction_dims of a shape of rank >= 1 returns only valid, distinct dimensions:
\* with dims absent it returns (0, ..., rank-1); with dims given it fails when an index
\* does not denote a dimension (idx >= rank or idx < -rank) or two indices denote the
\* same dimension, and what it returns is pairwise distinct and within 0..rank-1.
C15_ReductionDimsValid ==
    (Returned("reduction_dims") /\ Len(call.shape) >= 1)
    => LET rank == Len(call.shape)
           ds == call.dims.val
       IN  IF call.dims.tag = "None" THEN ret = Ok([i \in 1..rank |-> i - 1])
           ELSE IF \/ \E i \in DOMAIN ds : ds[i] >= rank \/ ds[i] < 0 - rank
                   \/ \E i, j \in DOMAIN ds :
                          i # j /\ Denoted(rank, ds[i]) = Denoted(rank, ds[j])
           THEN ret.status # "ok"
           ELSE /\ ret.status = "ok"
                /\ \A i \in DOMAIN ret.val : 0 <= ret.val[i] /\ ret.val[i] < rank
                /\ \A i, j \in DOMAIN ret.val : i # j => ret.val[i] # ret.val[j]

\* C16: the base promotion stays in the highest kind: for operands that are Numbers and
\* tensors of supported dtypes, under either default dtype, elementwise_dtypes with kind
\* DEFAULT returns, and the scalar kind (dtype_to_type) of its result dtype is the highest
\* scalar kind among the operands (bool < int < float < complex).
C16_ResultKindIsHighestKind ==
    (/\ Returned("elementwise_dtypes")
     /\ call.type_promotion_kind = "DEFAULT"
     /\ WellTyped(Operands(call.args)))
    => /\ ret.status = "ok"
       /\ dtype_to_type(ret.val[2]) = Ok(HighestKind(Operands(call.args)))

\* a bfloat16 tensor takes the complex kind of a complex Number, through the real-to-
\* complex map
C16_Witness ==
    /\ Returned("elementwise_dtypes")
    /\ call.type_promotion_kind = "DEFAULT"
    /\ call.args = <<Tensor("bfloat16", <<2>>, "cpu"), Num("complex")>>
    /\ ret = Ok(<<"complex64", "complex64">>)

====
